---- MODULE Spec2Model ----
(***************************************************************************)
(* A model of tools/gen_palette.py, the DOOM fire palette generator.       *)
(*                                                                         *)
(* Real numbers in [0,1] (colour channels) are fixed-point integers scaled *)
(* by ONE = 10^8, rounded down.  Positions on the ramp and the sampling    *)
(* parameter t are exact rationals (hundredths, and i/(size-1)), so every  *)
(* comparison of t with a stop position is exact.  A power x ** (p/q) is   *)
(* computed from the binary expansion of p/q by repeated square roots, to  *)
(* PowBits binary digits of the exponent.                                  *)
(***************************************************************************)
EXTENDS Integers, Sequences, FiniteSets, TLC

VARIABLES size, gamma, format, outfile,   \* args, as argparse returns them
          pc,                             \* position in main
          i, pal,                         \* build_fire_palette's loop
          smp,                            \* the last call of interpolate_stops
          events,                         \* what main has done so far, in order
          stdout, file, dirs,             \* sys.stdout, the file, its parent
          exitStatus, raised              \* how the process ended

vars == <<size, gamma, format, outfile, pc, i, pal, smp, events,
          stdout, file, dirs, exitStatus, raised>>

(* ----------------------------- bounds --------------------------------- *)

\* Largest --size of a run of the builder alone.
MaxSize == 21
\* Largest --size of a run of main.
MaxCliSize == 3
\* Longest palette handed to the raw writers directly.
MaxRawLen == 3
\* Binary digits of an exponent that Pow uses.
PowBits == 20

(* ------------------------- fixed-point reals --------------------------- *)

K == 10 ^ 4
ONE == K * K

\* The arithmetic is written as functions, which TLC applies to values.

\* floor(a * b / ONE), in halves of four decimal digits to stay in 32 bits.
Mul[a \in Int, b \in Int] ==
  LET ah == a \div K
      al == a % K
      bh == b \div K
      bl == b % K
  IN  ah * bh + ((ah * bl + al * bh) + (al * bl) \div K) \div K

\* (a * b) mod ONE.
MulLo[a \in Int, b \in Int] ==
  LET ah == a \div K
      al == a % K
      bh == b \div K
      bl == b % K
  IN  (((ah * bl + al * bh) + (al * bl) \div K) % K) * K + ((al * bl) % K)

\* floor(a * n / d) for a small integer ratio n/d.
MulDiv[a \in Int, n \in Int, d \in Int] ==
  LET ah == a \div K
      al == a % K
  IN  ((ah * n) \div d) * K + (((ah * n) % d) * K + al * n) \div d

\* r * r <= x * ONE
SqLe[r \in Int, x \in Int] ==
  Mul[r, r] < x \/ (Mul[r, r] = x /\ MulLo[r, r] = 0)

\* floor(sqrt(x / ONE) * ONE), digit by digit from the place `step` down,
\* r being the digits found so far.
SqrtDigits[x \in Int, r \in Int, step \in Int] ==
  CASE step = 0 -> r
    [] OTHER ->
         SqrtDigits[x,
                    r + step * (CHOOSE d \in 0..9 :
                                  /\ r + d * step <= ONE
                                  /\ SqLe[r + d * step, x]
                                  /\ \/ d = 9
                                     \/ r + (d + 1) * step > ONE
                                     \/ ~SqLe[r + (d + 1) * step, x]),
                    step \div 10]

Sqrt[x \in Int] == SqrtDigits[x, 0, ONE]

\* acc * x ** (p / q) from the binary digits of p/q, k digits being left:
\* x ** (p/q) = x * x ** ((p-q)/q) for p >= q, and = sqrt(x) ** (2p/q).
PowRec[x \in Int, p \in Int, q \in Int, k \in Int, acc \in Int] ==
  CASE p = 0 \/ x = ONE -> acc
    [] p # 0 /\ x = 0 -> 0
    [] p # 0 /\ x # 0 /\ x # ONE /\ p >= q -> PowRec[x, p - q, q, k, Mul[acc, x]]
    [] p # 0 /\ x # 0 /\ x # ONE /\ p < q /\ k = 0 -> acc
    [] OTHER -> PowRec[Sqrt[x], 2 * p, q, k - 1, acc]

\* x ** (p / q) for 0 <= x <= 1 and p/q >= 0.
Pow[x \in Int, p \in Int, q \in Int] == PowRec[x, p, q, PowBits, ONE]

\* The decimal literal h/100 as a fixed-point real.
Fp(h) == h * (ONE \div 100)

Fp3(c) == <<Fp(c[1]), Fp(c[2]), Fp(c[3])>>

Max(a, b) == IF a >= b THEN a ELSE b
Min(a, b) == IF a <= b THEN a ELSE b

(* --------------------------- the functions ----------------------------- *)

\* a + (b - a) * t, the parameter t being the exact ratio tn/td.
lerp[a \in Int, b \in Int, tn \in Int, td \in Int] ==
  a + MulDiv[b - a, tn, td]

srgb_to_linear[c \in Int] ==
  IF c <= 4045 * (ONE \div 100000)
  THEN MulDiv[c, 100, 1292]
  ELSE Pow[MulDiv[c + 55 * (ONE \div 1000), 1000, 1055], 12, 5]

Clamp01[c \in Int] == IF c < 0 THEN 0 ELSE IF c > ONE THEN ONE ELSE c

linear_to_srgb[c \in Int] ==
  IF Clamp01[c] <= 31308 * (ONE \div 10000000)
  THEN MulDiv[Clamp01[c], 1292, 100]
  ELSE MulDiv[Pow[Clamp01[c], 5, 12], 1055, 1000] - 55 * (ONE \div 1000)

\* float(s) on the --gamma strings of the model: the value as a ratio, or
\* ok = FALSE where Python raises ValueError.
float(s) ==
  CASE s = "2.2" -> [ok |-> TRUE, num |-> 11, den |-> 5]
    [] s = "0.5" -> [ok |-> TRUE, num |-> 1, den |-> 2]
    [] s = "0"   -> [ok |-> TRUE, num |-> 0, den |-> 1]
    [] s = "-1"  -> [ok |-> TRUE, num |-> -1, den |-> 1]
    [] OTHER     -> [ok |-> FALSE, num |-> 0, den |-> 1]

\* c ** (1.0 / gpow) for gpow = g.num / g.den # 0: err is the exception raised.
\* A zero base with a negative exponent raises ZeroDivisionError; a positive
\* base with a negative exponent gives a value >= 1.0, kept as ONE.
GammaPow(c, g) ==
  IF g.num > 0 THEN [err |-> "", v |-> Pow[c, g.den, g.num]]
  ELSE IF c = 0 THEN [err |-> "ZeroDivisionError", v |-> 0]
  ELSE [err |-> "", v |-> ONE]

apply_gamma(rgb, gamma_mode) ==
  IF gamma_mode = "srgb" THEN [err |-> "", c |-> rgb]
  ELSE LET g == float(gamma_mode)
       IN  IF ~g.ok THEN [err |-> "ValueError", c |-> rgb]
           ELSE IF g.num = 0 THEN [err |-> "ZeroDivisionError", c |-> rgb]
           ELSE LET r == GammaPow(rgb[1], g)
                    gg == GammaPow(rgb[2], g)
                    b == GammaPow(rgb[3], g)
                    e == IF r.err # "" THEN r.err
                         ELSE IF gg.err # "" THEN gg.err ELSE b.err
                IN  [err |-> e, c |-> <<r.v, gg.v, b.v>>]

\* round(v * scale), round being Python's round-half-to-even.
RoundScale[v \in Int, scale \in Int] ==
  LET q == scale * (v \div K)
      r == scale * (v % K)
      t == q + r \div K
      ip == t \div K
      fr == (t % K) * K + (r % K)
  IN  IF 2 * fr > ONE THEN ip + 1
      ELSE IF 2 * fr = ONE THEN ip + (ip % 2)
      ELSE ip

\* Variant: scaled to 8 bits per channel, not clamped.
to_dac_8bit(v) == RoundScale[v, 255]

\* max(0, min(63, int(round(v * 63.0))))
to_dac(v) == Max(0, Min(63, RoundScale[v, 63]))

\* Variant: the red of the fifth stop dips below its neighbours'.
stops_dip ==
  << <<0,   <<0, 0, 0>> >>,
     <<15,  <<20, 0, 0>> >>,
     <<35,  <<80, 0, 0>> >>,
     <<55,  <<100, 35, 0>> >>,
     <<75,  <<90, 75, 10>> >>,
     <<100, <<100, 100, 100>> >> >>

\* The stop list: positions and colours in hundredths.
stops ==
  << <<0,   <<0, 0, 0>> >>,
     <<15,  <<20, 0, 0>> >>,
     <<35,  <<80, 0, 0>> >>,
     <<55,  <<100, 35, 0>> >>,
     <<75,  <<100, 75, 10>> >>,
     <<100, <<100, 100, 100>> >> >>

\* t <= p and t >= p, for t = num/den and p in hundredths.
TLe(t, p) == 100 * t.num <= p * t.den
TGe(t, p) == 100 * t.num >= p * t.den

\* Variant: p0 < t < p1.
SegMatchStrict(p0, t, p1) == ~TLe(t, p0) /\ ~TGe(t, p1)

\* p0 <= t <= p1
SegMatch(p0, t, p1) == TGe(t, p0) /\ TLe(t, p1)

\* The first i with stops[i].pos <= t <= stops[i+1].pos, or 0: the loop ends
\* without a break and c is never assigned.
FindSeg(st, t) ==
  LET hits == {s \in 1..(Len(st) - 1) : SegMatch(st[s][1], t, st[s + 1][1])}
  IN  IF hits = {} THEN 0 ELSE CHOOSE s \in hits : \A s2 \in hits : s <= s2

\* Variant: the fraction measured from the end of the segment.
UFracFromEnd(t, p0, p1) ==
  [num |-> p1 * t.den - 100 * t.num, den |-> t.den * (p1 - p0)]

\* u = (t - p0) / (p1 - p0), exactly.
UFrac(t, p0, p1) ==
  [num |-> 100 * t.num - p0 * t.den, den |-> t.den * (p1 - p0)]

\* One channel of the colour of a matched segment.
BlendChannel[a \in Int, b \in Int, un \in Int, ud \in Int, linear \in BOOLEAN] ==
  IF linear
  THEN linear_to_srgb[lerp[srgb_to_linear[a], srgb_to_linear[b], un, ud]]
  ELSE lerp[a, b, un, ud]

\* The colour of one matched segment.
Blend(c0, c1, u, gamma_mode) ==
  <<BlendChannel[Fp(c0[1]), Fp(c1[1]), u.num, u.den, gamma_mode = "srgb"],
    BlendChannel[Fp(c0[2]), Fp(c1[2]), u.num, u.den, gamma_mode = "srgb"],
    BlendChannel[Fp(c0[3]), Fp(c1[3]), u.num, u.den, gamma_mode = "srgb"]>>

\* "find segment": the colour c before the gamma step, the branch that
\* assigned it, the segment, and whether it went through the sRGB conversion.
Select(st, t, gamma_mode) ==
  IF TLe(t, st[1][1])
  THEN [err |-> "", c |-> Fp3(st[1][2]), branch |-> "first", seg |-> 0,
        converted |-> FALSE]
  ELSE IF TGe(t, st[Len(st)][1])
  THEN [err |-> "", c |-> Fp3(st[Len(st)][2]), branch |-> "last", seg |-> 0,
        converted |-> FALSE]
  ELSE LET s == FindSeg(st, t)
       IN  IF s = 0
           THEN [err |-> "UnboundLocalError", c |-> <<0, 0, 0>>,
                 branch |-> "none", seg |-> 0, converted |-> FALSE]
           ELSE IF st[s + 1][1] = st[s][1]
           THEN [err |-> "ZeroDivisionError", c |-> <<0, 0, 0>>,
                 branch |-> "seg", seg |-> s, converted |-> FALSE]
           ELSE [err |-> "",
                 c |-> Blend(st[s][2], st[s + 1][2],
                             UFrac(t, st[s][1], st[s + 1][1]), gamma_mode),
                 branch |-> "seg", seg |-> s,
                 converted |-> (gamma_mode = "srgb")]

\* Variant: the gamma step taken inside the segment loop only.
GammaStepInLoop(sel, gamma_mode) ==
  IF sel.err # "" THEN [err |-> sel.err, c |-> sel.c, applied |-> 0]
  ELSE IF gamma_mode # "srgb" /\ sel.branch = "seg"
  THEN LET a == apply_gamma(sel.c, gamma_mode)
       IN  [err |-> a.err, c |-> a.c, applied |-> 1]
  ELSE [err |-> "", c |-> sel.c, applied |-> 0]

\* "if gamma_mode != 'srgb': c = apply_gamma(c, gamma_mode)", with the number
\* of times apply_gamma was called.
GammaStep(sel, gamma_mode) ==
  IF sel.err # "" THEN [err |-> sel.err, c |-> sel.c, applied |-> 0]
  ELSE IF gamma_mode # "srgb"
  THEN LET a == apply_gamma(sel.c, gamma_mode)
       IN  [err |-> a.err, c |-> a.c, applied |-> 1]
  ELSE [err |-> "", c |-> sel.c, applied |-> 0]

interpolate_stops(st, t, gamma_mode) ==
  LET found == Select(st, t, gamma_mode)
      final == GammaStep(found, gamma_mode)
  IN  [err |-> final.err, c |-> final.c, pre |-> found.c,
       branch |-> found.branch, seg |-> found.seg,
       converted |-> found.converted, applied |-> final.applied, t |-> t]

\* Variant: t = i / size.
TParamOverSize(idx, n) ==
  IF n > 1 THEN [num |-> idx, den |-> n] ELSE [num |-> 0, den |-> 1]

\* t = i / (size - 1) if size > 1 else 0.0
TParam(idx, n) ==
  IF n > 1 THEN [num |-> idx, den |-> n - 1] ELSE [num |-> 0, den |-> 1]

NoSample ==
  [err |-> "", c |-> <<0, 0, 0>>, pre |-> <<0, 0, 0>>, branch |-> "unsampled",
   seg |-> 0, converted |-> FALSE, applied |-> 0, t |-> [num |-> 0, den |-> 1]]

(* --------------------------- the builder ------------------------------- *)

Gammas == {"srgb", "2.2", "0.5", "0", "-1", "abc"}
ValidGamma(g) == g = "srgb" \/ (float(g).ok /\ float(g).num > 0)

\* One iteration of build_fire_palette's loop; an exception ends the process
\* with a traceback and status 1.
Sample ==
  /\ pc = "build"
  /\ i < size
  /\ \E r \in {interpolate_stops(stops, TParam(i, size), gamma)} :
         /\ smp' = r
         /\ IF r.err # ""
            THEN /\ pc' = "exit"
                 /\ exitStatus' = 1
                 /\ raised' = r.err
                 /\ UNCHANGED <<pal, i>>
            ELSE /\ pal' = Append(pal, <<to_dac(r.c[1]), to_dac(r.c[2]),
                                         to_dac(r.c[3])>>)
                 /\ i' = i + 1
                 /\ UNCHANGED <<pc, exitStatus, raised>>
  /\ UNCHANGED <<size, gamma, format, outfile, events, stdout, file, dirs>>

Ev(what, who, dest) == [ev |-> what, who |-> who, dest |-> dest]

\* Variant: main goes on to the writers without the mkdir step.
BuildReturnSkipMkdir ==
  /\ pc = "build"
  /\ i >= size
  /\ pc' = "write"
  /\ events' = Append(events, Ev("built", "build_fire_palette", ""))
  /\ UNCHANGED <<size, gamma, format, outfile, i, pal, smp, stdout, file,
                 dirs, exitStatus, raised>>

\* range(size) is exhausted: "return pal".
BuildReturn ==
  /\ pc = "build"
  /\ i >= size
  /\ pc' = "mkdir"
  /\ events' = Append(events, Ev("built", "build_fire_palette", ""))
  /\ UNCHANGED <<size, gamma, format, outfile, i, pal, smp, stdout, file,
                 dirs, exitStatus, raised>>

InitBuild ==
  /\ size \in 0..MaxSize
  /\ gamma \in Gammas
  /\ format = "fasm"
  /\ outfile = ""
  /\ pc = "build"
  /\ i = 0
  /\ pal = <<>>
  /\ smp = NoSample
  /\ events = <<Ev("call", "build_fire_palette", "")>>
  /\ stdout = <<>>
  /\ file = [exists |-> FALSE, content |-> <<>>]
  /\ dirs = FALSE
  /\ exitStatus = -1
  /\ raised = ""

NextBuild == Sample \/ BuildReturn

\* build_fire_palette(size, gamma_mode) alone, for every size and gamma string.
SpecBuild == InitBuild /\ [][NextBuild]_vars

(* ----------------------------- the writers ----------------------------- *)

Line(kind, idx, c) == [kind |-> kind, idx |-> idx, c |-> c]

\* "<label>:", then "  ; index NN" and "  db r,g,b" for each entry.
write_fasm(p) ==
  [k \in 1..(1 + 2 * Len(p)) |->
     IF k = 1 THEN Line("label", 0, <<0, 0, 0>>)
     ELSE IF k % 2 = 0 THEN Line("comment", (k \div 2) - 1, <<0, 0, 0>>)
     ELSE Line("db", ((k - 1) \div 2) - 1, p[(k - 1) \div 2])]

\* One "0xRR 0xGG 0xBB" line for each entry, printed to sys.stdout.
write_hex(p) == [k \in 1..Len(p) |-> Line("hex", k - 1, p[k])]

\* main's own loop for --format hex with an output file.
main_hex_file(p) == [k \in 1..Len(p) |-> Line("hex", k - 1, p[k])]

\* Variant: the bytes of an entry in the order r, b, g.
write_raw_rbg(p) ==
  [k \in 1..(3 * Len(p)) |->
     p[(k + 2) \div 3][IF k % 3 = 1 THEN 1 ELSE IF k % 3 = 2 THEN 3 ELSE 2]]

\* b.extend([r, g, bch]) for each entry, then one write of the bytearray.
write_raw(p) ==
  [k \in 1..(3 * Len(p)) |-> p[(k + 2) \div 3][((k - 1) % 3) + 1]]

\* main's own loop for --format raw with an output file.
main_raw_file(p) ==
  [k \in 1..(3 * Len(p)) |-> p[(k + 2) \div 3][((k - 1) % 3) + 1]]

\* Reading a byte sequence back three bytes at a time.
ReadTriplets(bytes) ==
  [k \in 1..(Len(bytes) \div 3) |->
     <<bytes[3 * k - 2], bytes[3 * k - 1], bytes[3 * k]>>]

(* -------------------------------- main --------------------------------- *)

Formats == {"fasm", "hex", "raw"}
OutPath == "build/palette.bin"

\* ap.parse_args(): an unknown --format ends the process with status 2;
\* --size is any integer and --gamma any string.  Then main calls the builder.
ParseArgs ==
  /\ pc = "parse"
  /\ IF format \in Formats
     THEN /\ pc' = "build"
          /\ events' = Append(events, Ev("call", "build_fire_palette", ""))
          /\ UNCHANGED <<exitStatus, raised>>
     ELSE /\ pc' = "exit"
          /\ exitStatus' = 2
          /\ raised' = "SystemExit"
          /\ UNCHANGED events
  /\ UNCHANGED <<size, gamma, outfile, format, i, pal, smp, stdout, file, dirs>>

\* if args.outfile: Path(args.outfile).parent.mkdir(parents=True, exist_ok=True)
Mkdir ==
  /\ pc = "mkdir"
  /\ IF outfile # ""
     THEN /\ dirs' = TRUE
          /\ events' = Append(events, Ev("mkdir", "Path.mkdir", outfile))
     ELSE UNCHANGED <<dirs, events>>
  /\ pc' = "write"
  /\ UNCHANGED <<size, gamma, format, outfile, i, pal, smp, stdout, file,
                 exitStatus, raised>>

\* mkdir raises OSError: a traceback and status 1.
MkdirFails ==
  /\ pc = "mkdir"
  /\ outfile # ""
  /\ pc' = "exit"
  /\ exitStatus' = 1
  /\ raised' = "OSError"
  /\ UNCHANGED <<size, gamma, format, outfile, i, pal, smp, events, stdout,
                 file, dirs>>

\* open(args.outfile, ...) raises OSError.
OpenFails ==
  /\ pc = "write"
  /\ outfile # ""
  /\ pc' = "exit"
  /\ exitStatus' = 1
  /\ raised' = "OSError"
  /\ UNCHANGED <<size, gamma, format, outfile, i, pal, smp, events, stdout,
                 file, dirs>>

\* One branch of main's if/elif/else on args.format: the file is opened (and
\* truncated) and written, or the writer prints to sys.stdout.
Emit(fmt, toFile, toStdout) ==
  /\ pc = "write"
  /\ format = fmt
  /\ IF outfile # ""
     THEN /\ file' = [exists |-> TRUE, content |-> toFile]
          /\ events' = Append(events, Ev("write", fmt, outfile))
          /\ UNCHANGED stdout
     ELSE /\ stdout' = stdout \o toStdout
          /\ events' = Append(events, Ev("write", fmt, "stdout"))
          /\ UNCHANGED file
  /\ pc' = "exit"
  /\ exitStatus' = 0
  /\ UNCHANGED <<size, gamma, format, outfile, i, pal, smp, dirs, raised>>

WriteFasm == Emit("fasm", write_fasm(pal), write_fasm(pal))
WriteHex == Emit("hex", main_hex_file(pal), write_hex(pal))
WriteRaw == Emit("raw", main_raw_file(pal), write_raw(pal))

Init ==
  /\ size \in (-1)..MaxCliSize
  /\ gamma \in Gammas
  /\ format \in Formats \cup {"bmp"}
  /\ outfile \in {"", OutPath}
  /\ pc = "parse"
  /\ i = 0
  /\ pal = <<>>
  /\ smp = NoSample
  /\ events = <<>>
  /\ stdout = <<>>
  /\ file = [exists |-> FALSE, content |-> <<>>]
  /\ dirs = FALSE
  /\ exitStatus = -1
  /\ raised = ""

Next ==
  \/ ParseArgs
  \/ Sample
  \/ BuildReturn
  \/ Mkdir
  \/ MkdirFails
  \/ OpenFails
  \/ WriteFasm
  \/ WriteHex
  \/ WriteRaw

\* One run of main.
Spec == Init /\ [][Next]_vars

\* The raw writers on palettes that need not come from the builder.
RawColors == {<<1, 2, 3>>, <<4, 5, 6>>, <<0, 0, 0>>, <<63, 63, 63>>}
RawPalettes == UNION {[1..n -> RawColors] : n \in 0..MaxRawLen}

InitRaw ==
  /\ pal \in RawPalettes
  /\ size = Len(pal)
  /\ i = Len(pal)
  /\ gamma = "srgb"
  /\ format = "raw"
  /\ outfile \in {"", OutPath}
  /\ pc = "mkdir"
  /\ smp = NoSample
  /\ events = <<Ev("call", "build_fire_palette", ""),
                Ev("built", "build_fire_palette", "")>>
  /\ stdout = <<>>
  /\ file = [exists |-> FALSE, content |-> <<>>]
  /\ dirs = FALSE
  /\ exitStatus = -1
  /\ raised = ""

NextRaw == Mkdir \/ MkdirFails \/ OpenFails \/ WriteRaw

SpecRaw == InitRaw /\ [][NextRaw]_vars

(* ------------------------------ the claims ----------------------------- *)

Returned == pc = "mkdir"
Sampled == smp.branch # "unsampled"
Quantized(c) == <<to_dac(c[1]), to_dac(c[2]), to_dac(c[3])>>
InDac(x) == x \in 0..63
\* t is exactly the position of stop s.
AtStop(t, s) == 100 * t.num = stops[s][1] * t.den
Resolution == ONE \div 1000000
Near(a, b) == a - b <= Resolution /\ b - a <= Resolution

\* C1: for size >= 1 and a valid gamma mode the builder raises nothing and
\* returns exactly `size` triplets, every component an integer in 0..63.
C1_SizeAndRange ==
  (size >= 1 /\ ValidGamma(gamma)) =>
     /\ pc # "exit"
     /\ Len(pal) = i
     /\ i <= size
     /\ Returned => Len(pal) = size
     /\ \A k \in 1..Len(pal) : \A ch \in 1..3 : InDac(pal[k][ch])

C1_Witness ==
  /\ Returned
  /\ size >= 5
  /\ gamma = "2.2"
  /\ Len(pal) = size
  /\ \E k \in 1..Len(pal) : pal[k][1] = 63 /\ pal[k][3] = 0

\* C2: for both gamma modes the first entry is the quantized first stop
\* (0,0,0) for every size >= 1 (size 1 samples t = 0), the last entry of a
\* palette of size > 1 is the quantized last stop (63,63,63), and
\* build(2, "srgb") = [(0,0,0), (63,63,63)].
C2_Endpoints ==
  (size >= 1 /\ ValidGamma(gamma)) =>
     /\ Len(pal) >= 1 =>
          /\ pal[1] = <<0, 0, 0>>
          /\ pal[1] = Quantized(Fp3(stops[1][2]))
     /\ (size = 1 /\ Sampled) => (smp.t.num = 0 /\ smp.t.den # 0)
     /\ (Returned /\ size > 1) =>
          /\ pal[size] = <<63, 63, 63>>
          /\ pal[size] = Quantized(Fp3(stops[Len(stops)][2]))
     /\ (Returned /\ size = 2 /\ gamma = "srgb") =>
          pal = << <<0, 0, 0>>, <<63, 63, 63>> >>

C2_Witness ==
  /\ Returned
  /\ size = 2
  /\ gamma = "srgb"
  /\ pal = << <<0, 0, 0>>, <<63, 63, 63>> >>

HasEvent(what) == \E k \in 1..Len(events) : events[k].ev = what

\* C3: a run with size <= 0 ends with a non-zero exit status and writes
\* no palette.
C3_NonPositiveSizeRejected ==
  size <= 0 =>
     /\ ~HasEvent("write")
     /\ pc = "exit" => exitStatus # 0

\* C4: a --gamma that is neither "srgb" nor a positive float is rejected
\* before build_fire_palette is called, and the run ends with a non-zero
\* exit status whatever the size.
C4_BadGammaRejectedAtBoundary ==
  ~ValidGamma(gamma) =>
     /\ ~HasEvent("call")
     /\ pc = "exit" => exitStatus # 0

RawBytes == IF outfile = "" THEN stdout ELSE file.content

\* C5: the raw format emits exactly 3 * size bytes R0,G0,B0,R1,G1,B1,... and
\* nothing else, to stdout or to the file, and reading them back three at a
\* time gives the palette again.
C5_RawRoundTrip ==
  (pc = "exit" /\ exitStatus = 0 /\ format = "raw") =>
     /\ Len(RawBytes) = 3 * Len(pal)
     /\ \A k \in 1..Len(pal) : \A ch \in 1..3 :
          RawBytes[3 * (k - 1) + ch] = pal[k][ch]
     /\ ReadTriplets(RawBytes) = pal
     /\ outfile = "" => ~file.exists
     /\ outfile # "" => (file.exists /\ stdout = <<>>)

C5_Witness ==
  /\ pc = "exit"
  /\ exitStatus = 0
  /\ outfile = ""
  /\ pal = << <<1, 2, 3>>, <<4, 5, 6>> >>
  /\ stdout = <<1, 2, 3, 4, 5, 6>>

\* The colour the stop search gives at t when segment s is the one chosen.
ViaSegment(s, t, gamma_mode) ==
  GammaStep([err |-> "",
             c |-> Blend(stops[s][2], stops[s + 1][2],
                         UFrac(t, stops[s][1], stops[s + 1][1]), gamma_mode),
             branch |-> "seg", seg |-> s, converted |-> FALSE],
            gamma_mode).c

\* C6: when t is exactly the position of a stop, the colour found is that
\* stop's colour (an interior stop is found as the end of the preceding
\* segment), the palette entry is the stop's quantized colour, after the power
\* adjustment in numeric mode, and the following segment gives the same entry.
C6_ExactStop ==
  \A s \in 1..Len(stops) :
    (ValidGamma(gamma) /\ Sampled /\ Len(pal) = i /\ i >= 1
       /\ AtStop(smp.t, s)) =>
       /\ (s > 1 /\ s < Len(stops)) => (smp.branch = "seg" /\ smp.seg = s - 1)
       /\ gamma # "srgb" => smp.pre = Fp3(stops[s][2])
       /\ \A ch \in 1..3 : Near(smp.pre[ch], Fp(stops[s][2][ch]))
       /\ pal[i] = Quantized(apply_gamma(Fp3(stops[s][2]), gamma).c)
       /\ (s > 1 /\ s < Len(stops)) =>
            pal[i] = Quantized(ViaSegment(s, smp.t, gamma))

\* C6 as stated: at the position of a stop the colour found is exactly the
\* stop's colour, in both modes.
C6_ExactColour ==
  \A s \in 1..Len(stops) :
    (ValidGamma(gamma) /\ Sampled /\ AtStop(smp.t, s)) =>
       smp.pre = Fp3(stops[s][2])

C6_Witness ==
  /\ gamma = "srgb"
  /\ Sampled
  /\ AtStop(smp.t, 4)
  /\ smp.seg = 3
  /\ Len(pal) = i
  /\ pal[i] = <<63, 22, 0>>

\* C7: in numeric gamma mode every sample, the boundary ones included, gets
\* the power adjustment exactly once; in sRGB mode no sample gets it, and a
\* boundary sample is the stop colour itself, not converted.
C7_GammaOnlyByMode ==
  Sampled =>
     /\ gamma # "srgb" =>
          /\ smp.applied = 1
          /\ smp.err = "" => smp.c = apply_gamma(smp.pre, gamma).c
          /\ smp.converted = FALSE
     /\ gamma = "srgb" =>
          /\ smp.applied = 0
          /\ smp.c = smp.pre
          /\ smp.branch = "first" =>
               (~smp.converted /\ smp.c = Fp3(stops[1][2]))
          /\ smp.branch = "last" =>
               (~smp.converted /\ smp.c = Fp3(stops[Len(stops)][2]))
          /\ smp.branch = "seg" => smp.converted

C7_Witness ==
  /\ gamma = "2.2"
  /\ smp.branch = "last"
  /\ smp.applied = 1
  /\ smp.c = <<ONE, ONE, ONE>>

EvNames == [k \in 1..Len(events) |-> events[k].ev]
Expected ==
  IF outfile # "" THEN <<"call", "built", "mkdir", "write">>
  ELSE <<"call", "built", "write">>
IsPrefix(a, b) == Len(a) <= Len(b) /\ \A k \in 1..Len(a) : a[k] = b[k]

\* C8: main builds the whole palette first, then creates the parent directory
\* (only with an output path), then writes; a run that ends with status 0 has
\* written once, with the writer of --format, to stdout or to the one file;
\* no run writes twice, and a run whose build fails writes nothing and
\* creates no directory.
C8_Order ==
  /\ IsPrefix(EvNames, Expected)
  /\ HasEvent("built") => Len(pal) = (IF size > 0 THEN size ELSE 0)
  /\ dirs => (outfile # "" /\ HasEvent("built"))
  /\ ~HasEvent("write") => (stdout = <<>> /\ ~file.exists)
  /\ ~HasEvent("built") => (stdout = <<>> /\ ~file.exists /\ ~dirs)
  /\ file.exists => (dirs /\ stdout = <<>>)
  /\ (pc = "exit" /\ exitStatus = 0) =>
       /\ EvNames = Expected
       /\ events[Len(events)].who = format
       /\ events[Len(events)].dest = (IF outfile # "" THEN outfile ELSE "stdout")
       /\ file.exists <=> outfile # ""

C8_Witness ==
  /\ pc = "exit"
  /\ exitStatus = 0
  /\ outfile # ""
  /\ format = "hex"
  /\ size = 3
  /\ dirs
  /\ Len(file.content) = 3

\* C9: every sample is assigned a colour: t strictly inside the ramp matches
\* an adjacent pair of stops of different positions, the first such pair is
\* the one used, and no sample ends in an unassigned colour or a division by
\* zero in the stop search.
C9_SegmentFound ==
  (Sampled /\ size >= 1) =>
     /\ smp.branch \in {"first", "last", "seg"}
     /\ smp.err # "UnboundLocalError"
     /\ ValidGamma(gamma) => smp.err = ""
     /\ smp.branch = "seg" =>
          /\ smp.seg \in 1..(Len(stops) - 1)
          /\ stops[smp.seg + 1][1] - stops[smp.seg][1] > 0
          /\ UFrac(smp.t, stops[smp.seg][1], stops[smp.seg + 1][1]).den # 0
          /\ SegMatch(stops[smp.seg][1], smp.t, stops[smp.seg + 1][1])
          /\ \A s \in 1..(smp.seg - 1) :
               ~SegMatch(stops[s][1], smp.t, stops[s + 1][1])

C9_Witness ==
  /\ ValidGamma(gamma)
  /\ smp.branch = "seg"
  /\ smp.seg = 4
  /\ AtStop(smp.t, 5)
  /\ smp.err = ""

\* C10: for size >= 2 and a valid gamma mode each channel of the palette is
\* non-decreasing in the index.
C10_ChannelsMonotone ==
  ValidGamma(gamma) =>
     \A k \in 1..(Len(pal) - 1) : \A ch \in 1..3 : pal[k][ch] <= pal[k + 1][ch]

C10_Witness ==
  /\ Returned
  /\ ValidGamma(gamma)
  /\ size >= 10
  /\ Len(pal) = size
  /\ pal[5][1] < pal[6][1]
  /\ pal[size - 1][3] < pal[size][3]

====
